---- MODULE Spec2Model ----
(***************************************************************************)
(* Stechuhr: the day ledger of one month sheet (stechuhr/excel.py).        *)
(*                                                                         *)
(* Units.  Times of day are minutes since midnight.  Every hours value is  *)
(* an integer number of 1/10000 hour ("H4"), the finest grain the code     *)
(* produces (round(diff, 4)); a value rounded to 2 decimals is a multiple  *)
(* of 100.  An hours cell of the sheet holds the Excel time fraction       *)
(* hours/24; it is kept as the numerator of that fraction over             *)
(* FractionOne.  An empty cell (None) is <<>>, a filled cell is <<v>>.     *)
(***************************************************************************)
EXTENDS Integers, Sequences, FiniteSets, TLC

\* ------------------------------------------------------------------ bounds
MaxOps == 5                 \* operations applied to the sheet in one run
MaxBlocks == 4              \* block columns the sheet may grow to
MaxRawMinutes == 480        \* raw day totals tried on the break policy

\* ------------------------------------------------------- program constants
INITIAL_BLOCKS == 3
MinutesPerDay == 1440
TravelOffsetMinutes == 2
AutoBreakThresholdHours == 60000
AutoBreakDeductionMinutes == 30
FractionOne == 240000
H4PerHour == 10000

\* ------------------------------------------------------------------ inputs
\* two consecutive weekdays of the month, numbered in date order: the first
\* has configured hours (8.0), the second has none (a part-time schedule), so
\* that only the first has a row when the sheet is created
\* the Ein times of the single block stamped on its own
BlockEntries == {0, 540}
Days == {1, 2}
\* the month sheets of a year's workbook, the years that may have a workbook
\* and the years the configuration may name a carry-over for
Months == {1, 2}
Years == {1, 2}
CarryYears == {0, 1, 2}
ScheduledDays == {1}
\* cutoff dates tried: each day and the day after the last
Cutoffs == {1, 2, 3}
\* 09:00 and 17:00
Times == {540, 1020}
\* a stored Soll that differs from the configured one (row edited by hand,
\* or the weekly schedule changed after the sheet was created)
OverriddenExpected == 6 * H4PerHour

None == << >>
Some(v) == << v >>
IsNone(c) == c = None
Val(c) == c[1]

\* config.get_expected_hours for the day's weekday
get_expected_hours(d) == IF d \in ScheduledDays THEN 8 * H4PerHour ELSE 0

\* ----------------------------------------------------------- arithmetic
Abs(n) == IF n < 0 THEN 0 - n ELSE n

\* n/d rounded to the nearest integer, ties to even (Python's round)
RoundHalfEven(n, d) ==
    LET q == n \div d
        r == n % d
    IN  IF 2 * r < d THEN q
        ELSE IF 2 * r > d THEN q + 1
        ELSE IF q % 2 = 0 THEN q ELSE q + 1

\* round(x, 2) on an hours value
\* slip: one decimal kept instead of two
Round2_OneDecimal(x) == 1000 * RoundHalfEven(x, 1000)

Round2(x) == 100 * RoundHalfEven(x, 100)

\* round(minutes / 60.0, 4)
\* slip: the duration is rounded to two decimals before it is summed
Round4OfMinutes_TwoDecimals(m) == Round2(RoundHalfEven(m * H4PerHour, 60))

Round4OfMinutes(m) == RoundHalfEven(m * H4PerHour, 60)

_hours_to_fraction(hours) == hours

_read_hours_value(val) ==
    IF IsNone(val) THEN 0
    ELSE IF Abs(Val(val)) < FractionOne THEN Round2(Val(val))
    ELSE RoundHalfEven(Val(val), 24)

\* cli._fmt_hours: total_minutes = round(abs(value) * 60)
FmtTotalMinutes(value) == RoundHalfEven(Abs(value) * 60, H4PerHour)

\* ------------------------------------------------------------------- state
VARIABLES
    ws,      \* the month sheet: block columns and one record per day row
    last,    \* the operation applied last and how it ended
    ops,     \* number of operations applied so far
    probe    \* input and result of a computation tried on its own

vars == << ws, last, ops, probe >>

EmptyCells(n) == [b \in 1 .. n |-> None]

\* a day of the month that has no row in the sheet
NoRow(n) ==
    [exists |-> FALSE, ein |-> EmptyCells(n), aus |-> EmptyCells(n),
     stunden |-> EmptyCells(n), status |-> "", gesamt |-> None,
     soll |-> None, saldo |-> None]

\* a day row as _create_month_sheet / _insert_day_row set it up: only the
\* Soll cell is filled
NewRow(n, expected) ==
    [NoRow(n) EXCEPT !.exists = TRUE,
                     !.soll = Some(_hours_to_fraction(expected))]

find_day_row(w, d) == w.rows[d].exists

_count_blocks(w) == IF w.num_blocks > INITIAL_BLOCKS THEN w.num_blocks
                    ELSE INITIAL_BLOCKS

_insert_day_row(w, d) ==
    [w EXCEPT !.rows[d] = NewRow(w.num_blocks, get_expected_hours(d))]

\* insert_cols before Status: every row gets three more empty cells
_expand_blocks(w) ==
    [num_blocks |-> w.num_blocks + 1,
     rows |-> [d \in Days |->
         [w.rows[d] EXCEPT !.ein = Append(@, None),
                           !.aus = Append(@, None),
                           !.stunden = Append(@, None)]]]

\* ---------------------------------------------------------- recalculate_day
\* first block (in block order) with an Ein, 0 when there is none
FirstEinBlock(row, n) ==
    LET S == {b \in 1 .. n : ~IsNone(row.ein[b])}
    IN  IF S = {} THEN 0 ELSE CHOOSE b \in S : \A c \in S : b <= c

\* slip: the exit offset goes to the last block with an Ein
LastAusBlock_LastEin(row, n) ==
    LET S == {b \in 1 .. n : ~IsNone(row.ein[b])}
    IN  IF S = {} THEN 0 ELSE CHOOSE b \in S : \A c \in S : b >= c

\* last block (in block order) with an Aus, 0 when there is none
LastAusBlock(row, n) ==
    LET S == {b \in 1 .. n : ~IsNone(row.aus[b])}
    IN  IF S = {} THEN 0 ELSE CHOOSE b \in S : \A c \in S : b >= c

\* minutes between the offset-adjusted Ein and Aus of a closed block
BlockMinutes(row, b, first_ein_block, last_aus_block) ==
    (Val(row.aus[b]) + (IF b = last_aus_block THEN TravelOffsetMinutes ELSE 0))
  - (Val(row.ein[b]) - (IF b = first_ein_block THEN TravelOffsetMinutes ELSE 0))

\* slip: the block's hours are added to the hours already in the cell
BlockHours_Accumulating(row, b, first_ein_block, last_aus_block) ==
    IF IsNone(row.ein[b]) \/ IsNone(row.aus[b]) THEN None
    ELSE LET m == BlockMinutes(row, b, first_ein_block, last_aus_block)
         IN  Some(Round4OfMinutes(IF m < 0 THEN 0 ELSE m)
                  + _read_hours_value(row.stunden[b]))

\* hours = round(diff, 4) with diff floored at 0; None for an unclosed block
BlockHours(row, b, first_ein_block, last_aus_block) ==
    IF IsNone(row.ein[b]) \/ IsNone(row.aus[b]) THEN None
    ELSE LET m == BlockMinutes(row, b, first_ein_block, last_aus_block)
         IN  Some(Round4OfMinutes(IF m < 0 THEN 0 ELSE m))

\* the hours of blocks 1 .. n in block order, as the loop over the blocks
\* computes them
RECURSIVE BlockHoursUpTo(_, _, _, _)
BlockHoursUpTo(row, n, first_ein_block, last_aus_block) ==
    IF n = 0 THEN << >>
    ELSE Append(BlockHoursUpTo(row, n - 1, first_ein_block, last_aus_block),
                BlockHours(row, n, first_ein_block, last_aus_block))

RECURSIVE SumHours(_, _)
SumHours(hs, n) ==
    IF n = 0 THEN 0
    ELSE SumHours(hs, n - 1) + (IF IsNone(hs[n]) THEN 0 ELSE Val(hs[n]))

\* slip: the two-branch policy folded into one flat deduction
AutoBreak_FlatDeduction(total_work) ==
    LET deduction == (AutoBreakDeductionMinutes * H4PerHour) \div 60
    IN  IF total_work > AutoBreakThresholdHours
        THEN total_work - deduction
        ELSE total_work

\* slip: the cap between threshold and threshold + deduction is left out
AutoBreak_NoCap(total_work) ==
    LET deduction == (AutoBreakDeductionMinutes * H4PerHour) \div 60
    IN  IF total_work > AutoBreakThresholdHours + deduction
        THEN total_work - deduction
        ELSE total_work

\* the automatic break deduction
AutoBreak(total_work) ==
    LET deduction == (AutoBreakDeductionMinutes * H4PerHour) \div 60
    IN  IF total_work > AutoBreakThresholdHours + deduction
        THEN total_work - deduction
        ELSE IF total_work > AutoBreakThresholdHours
        THEN AutoBreakThresholdHours
        ELSE total_work

\* slip: the status is compared with a string the sheet never holds
IsHome_WrongLiteral(day_status) == day_status = "home"

\* is_home = (day_status == "Home")
IsHome(day_status) == day_status = "Home"

recalculate_day(w, d) ==
    IF ~find_day_row(w, d) THEN w
    ELSE
    LET row == w.rows[d]
        n == _count_blocks(w)
        is_home == IsHome(row.status)
        first_ein_block == IF is_home THEN 0 ELSE FirstEinBlock(row, n)
        last_aus_block == IF is_home THEN 0 ELSE LastAusBlock(row, n)
        hours == BlockHoursUpTo(row, n, first_ein_block, last_aus_block)
        total_work == AutoBreak(SumHours(hours, n))
        expected == IF IsNone(row.soll) THEN get_expected_hours(d)
                    ELSE _read_hours_value(row.soll)
    IN  [w EXCEPT !.rows[d] =
            [row EXCEPT
                !.stunden = [b \in 1 .. n |->
                    IF IsNone(hours[b]) THEN None
                    ELSE Some(_hours_to_fraction(Round2(Val(hours[b]))))],
                !.gesamt = Some(_hours_to_fraction(Round2(total_work))),
                !.soll = IF IsNone(row.soll)
                         THEN Some(_hours_to_fraction(expected)) ELSE @,
                !.saldo = Some(_hours_to_fraction(
                                   Round2(total_work - expected)))]]

\* -------------------------------------------------------------- write_stamp
\* slip: the scan keeps the last empty Ein cell instead of stopping at the first
EinTargetBlock_LastEmpty(row, n) ==
    LET S == {b \in 1 .. n : IsNone(row.ein[b])}
    IN  IF S = {} THEN 0 ELSE CHOOSE b \in S : \A c \in S : b >= c

\* slip: the scan passes over the first empty Ein cell when there is another
EinTargetBlock_SecondEmpty(row, n) ==
    LET S == {b \in 1 .. n : IsNone(row.ein[b])}
        first == CHOOSE b \in S : \A c \in S : b <= c
        T == S \ {first}
    IN  IF S = {} THEN 0
        ELSE IF T = {} THEN first
        ELSE CHOOSE b \in T : \A c \in T : b <= c

\* clock-in: the first block whose Ein cell is empty, 0 when every block of
\* the sheet has an Ein on this row
EinTargetBlock(row, n) ==
    LET S == {b \in 1 .. n : IsNone(row.ein[b])}
    IN  IF S = {} THEN 0 ELSE CHOOSE b \in S : \A c \in S : b <= c

\* slip: the scan takes any block without an Aus, entered or not
AusTargetBlock_AnyEmptyAus(row, n) ==
    LET S == {b \in 1 .. n : IsNone(row.aus[b])}
    IN  IF S = {} THEN 0 ELSE CHOOSE b \in S : \A c \in S : b >= c

\* slip: the scan runs forward and closes the first open block
AusTargetBlock_FirstOpen(row, n) ==
    LET S == {b \in 1 .. n : ~IsNone(row.ein[b]) /\ IsNone(row.aus[b])}
    IN  IF S = {} THEN 0 ELSE CHOOSE b \in S : \A c \in S : b <= c

\* clock-out: the last block with an Ein and no Aus, 0 when there is none
AusTargetBlock(row, n) ==
    LET S == {b \in 1 .. n : ~IsNone(row.ein[b]) /\ IsNone(row.aus[b])}
    IN  IF S = {} THEN 0 ELSE CHOOSE b \in S : \A c \in S : b >= c

\* slip: every clock-in writes the status
StatusAfterEin_EveryClockIn(status, target_block, is_home) ==
    IF is_home THEN "Home" ELSE "Office"

\* the status written by a clock-in into block target_block
StatusAfterEin(status, target_block, is_home) ==
    IF target_block = 1 THEN (IF is_home THEN "Home" ELSE "Office")
    ELSE status

\* the sheet with the day's row in place (find_day_row / _insert_day_row)
WithDayRow(w, d) == IF find_day_row(w, d) THEN w ELSE _insert_day_row(w, d)

\* block a clock-in on day d writes to (a new block when all are taken)
EinBlockOf(w, d) ==
    LET w1 == WithDayRow(w, d)
        t == EinTargetBlock(w1.rows[d], _count_blocks(w1))
    IN  IF t = 0 THEN _count_blocks(w1) + 1 ELSE t

\* block a clock-out on day d writes to, 0 when it raises
AusBlockOf(w, d) ==
    LET w1 == WithDayRow(w, d)
    IN  AusTargetBlock(w1.rows[d], _count_blocks(w1))

write_stamp_ein(w, d, stamp_time, is_home) ==
    LET w1 == WithDayRow(w, d)
        target_block == EinBlockOf(w, d)
        w2 == IF target_block > _count_blocks(w1) THEN _expand_blocks(w1)
              ELSE w1
        w3 == [w2 EXCEPT
                 !.rows[d].ein[target_block] = Some(stamp_time),
                 !.rows[d].status = StatusAfterEin(@, target_block, is_home)]
    IN  recalculate_day(w3, d)

\* slip: the clock-out closes every open block of the row
write_stamp_aus_ClosesAll(w, d, stamp_time) ==
    LET w1 == WithDayRow(w, d)
        target_block == AusBlockOf(w, d)
    IN  IF target_block = 0 THEN w1
        ELSE recalculate_day(
                 [w1 EXCEPT !.rows[d].aus =
                     [b \in DOMAIN @ |->
                         IF ~IsNone(w1.rows[d].ein[b]) /\ IsNone(@[b])
                         THEN Some(stamp_time) ELSE @[b]]], d)

\* the ValueError leaves the sheet as it is when raised: row in place, no
\* stamp written, recalculate_day not reached
write_stamp_aus(w, d, stamp_time) ==
    LET w1 == WithDayRow(w, d)
        target_block == AusBlockOf(w, d)
    IN  IF target_block = 0 THEN w1
        ELSE recalculate_day(
                 [w1 EXCEPT !.rows[d].aus[target_block] = Some(stamp_time)], d)

\* ------------------------------------------------------------- set_day_sick
\* slip: the total is taken from the configured hours, not the row's Soll
set_day_sick_ConfiguredHours(w, d) ==
    IF ~find_day_row(w, d) THEN w
    ELSE [w EXCEPT !.rows[d] =
            [w.rows[d] EXCEPT
                !.status = "Krank",
                !.gesamt = Some(_hours_to_fraction(get_expected_hours(d))),
                !.saldo = Some(0)]]

set_day_sick(w, d) ==
    IF ~find_day_row(w, d) THEN w
    ELSE
    LET row == w.rows[d]
        \* an empty Soll cell is replaced by the configured hours, a plain
        \* number of hours that _read_hours_value then takes for a cell value
        expected == IF IsNone(row.soll) THEN Some(24 * get_expected_hours(d))
                    ELSE row.soll
        expected_hours == _read_hours_value(expected)
    IN  [w EXCEPT !.rows[d] =
            [row EXCEPT !.status = "Krank",
                        !.gesamt = Some(_hours_to_fraction(expected_hours)),
                        !.saldo = Some(0)]]

\* -------------------------------------------------------- fill_missing_days
has_stamps(row, n) == \E b \in 1 .. n : ~IsNone(row.ein[b])

\* slip: the cutoff day itself is filled (dt > up_to_date skipped)
FillsRow_CutoffIncluded(w, d, up_to_date) ==
    /\ find_day_row(w, d)
    /\ ~(d > up_to_date)
    /\ ~has_stamps(w.rows[d], _count_blocks(w))
    /\ IsNone(w.rows[d].gesamt)

\* rows fill_missing_days writes to
FillsRow(w, d, up_to_date) ==
    /\ find_day_row(w, d)
    /\ ~(d >= up_to_date)
    /\ ~has_stamps(w.rows[d], _count_blocks(w))
    /\ IsNone(w.rows[d].gesamt)

\* slip: the row's own Soll is left alone while Gesamt takes the configured hours
fill_missing_days_KeepsSoll(w, up_to_date) ==
    [w EXCEPT !.rows = [d \in Days |->
        IF FillsRow(w, d, up_to_date)
        THEN [w.rows[d] EXCEPT
                 !.gesamt = Some(_hours_to_fraction(get_expected_hours(d))),
                 !.saldo = Some(0)]
        ELSE w.rows[d]]]

fill_missing_days(w, up_to_date) ==
    [w EXCEPT !.rows = [d \in Days |->
        IF FillsRow(w, d, up_to_date)
        THEN [w.rows[d] EXCEPT
                 !.gesamt = Some(_hours_to_fraction(get_expected_hours(d))),
                 !.soll = Some(_hours_to_fraction(get_expected_hours(d))),
                 !.saldo = Some(0)]
        ELSE w.rows[d]]]

\* ------------------------------------------------ recalculate_sheet_summary
\* the cells of the Summe, Uebertrag and Kumuliert rows of a new sheet
NewSummary ==
    [gesamt |-> None, soll |-> None, saldo |-> None,
     uebertrag |-> None, kumuliert |-> None]

\* the sum of the cells of one column that are not None, as hours
RECURSIVE SumCells(_, _)
SumCells(cells, S) ==
    IF S = {} THEN 0
    ELSE LET d == CHOOSE x \in S : TRUE
         IN  (IF IsNone(cells[d]) THEN 0 ELSE _read_hours_value(cells[d]))
             + SumCells(cells, S \ {d})

\* slip: a row without a Gesamt counts its Soll as worked
TotalGesamt_SollWhenMissing(w) ==
    SumCells([d \in Days |-> IF IsNone(w.rows[d].gesamt) THEN w.rows[d].soll
                             ELSE w.rows[d].gesamt], Days)

TotalGesamt(w) == SumCells([d \in Days |-> w.rows[d].gesamt], Days)

TotalSoll(w) == SumCells([d \in Days |-> w.rows[d].soll], Days)

TotalSaldo(w) == SumCells([d \in Days |-> w.rows[d].saldo], Days)

\* slip: the cumulative is taken from worked minus expected
Cumulative_FromTotals(w, carry_over) ==
    Round2(carry_over + TotalGesamt(w) - TotalSoll(w))

Cumulative(w, carry_over) == Round2(carry_over + TotalSaldo(w))

\* the sheet with its summary rows rewritten, and the value returned
recalculate_sheet_summary(w, carry_over) ==
    [ws |-> [w EXCEPT !.summary =
                [gesamt |-> Some(_hours_to_fraction(Round2(TotalGesamt(w)))),
                 soll |-> Some(_hours_to_fraction(Round2(TotalSoll(w)))),
                 saldo |-> Some(_hours_to_fraction(Round2(TotalSaldo(w)))),
                 uebertrag |-> Some(_hours_to_fraction(Round2(carry_over))),
                 kumuliert |->
                     Some(_hours_to_fraction(Cumulative(w, carry_over)))]],
     cumulative |-> Cumulative(w, carry_over)]

\* (total, expected, saldo) of a row as iter_day_rows_with_data returns them
DayData(row) ==
    [total |-> IF IsNone(row.gesamt) THEN None
               ELSE Some(_read_hours_value(row.gesamt)),
     expected |-> IF IsNone(row.soll) THEN 0 ELSE _read_hours_value(row.soll),
     saldo |-> IF IsNone(row.saldo) THEN None
               ELSE Some(_read_hours_value(row.saldo))]

\* ----------------------------------------------- calculate_overtime_balance
\* dates are (year, month, day); a < b
DateBefore(a, b) ==
    \/ a[1] < b[1]
    \/ a[1] = b[1] /\ a[2] < b[2]
    \/ a[1] = b[1] /\ a[2] = b[2] /\ a[3] < b[3]

\* up_to_date as a day of the sheet of (year, month): the first day of the
\* sheet that is not before it, or the day after the last
DayCutoff(year, month, up_to_date) ==
    CHOOSE c \in Cutoffs :
        \A d \in Days : d < c <=> DateBefore(<< year, month, d >>, up_to_date)

get_carry_over(carry, year) ==
    IF IsNone(carry[year]) THEN 0 ELSE Val(carry[year])

\* slip: the carry-over of every configured year is added
PreCarry_AllYears(carry, earliest_year) ==
    LET v == [y \in CarryYears |-> get_carry_over(carry, y)]
    IN  v[0] + v[1] + v[2]

\* the carry-over constants of the years before the earliest workbook
PreCarry(carry, earliest_year) ==
    LET v == [y \in CarryYears |->
                 IF y < earliest_year THEN get_carry_over(carry, y) ELSE 0]
    IN  v[0] + v[1] + v[2]

\* slip: the row of the cutoff day is counted too
Counted_CutoffIncluded(year, month, d, up_to_date) ==
    ~DateBefore(up_to_date, << year, month, d >>)

\* the day rows the grand total takes: dt >= up_to_date is skipped
Counted(year, month, d, up_to_date) ==
    DateBefore(<< year, month, d >>, up_to_date)

\* what one day row adds to total_balance
DayBalance(row) ==
    LET data == DayData(row)
    IN  IF ~row.exists THEN 0
        ELSE IF ~IsNone(data.saldo) THEN Val(data.saldo)
        ELSE IF ~IsNone(data.total) THEN Val(data.total) - data.expected
        ELSE 0

SheetBalance(w, year, month, up_to_date) ==
    LET v == [d \in Days |->
                 IF Counted(year, month, d, up_to_date)
                 THEN DayBalance(w.rows[d]) ELSE 0]
    IN  v[1] + v[2]

\* one month of the walk: fill, summary, day rows; walk keeps the carry_over
\* each summary was computed with and the cumulative it returned
ProcessMonth(st, year, month, up_to_date) ==
    LET filled == fill_missing_days(st.book[year][month],
                                    DayCutoff(year, month, up_to_date))
        summed == recalculate_sheet_summary(filled, st.month_carry)
    IN  [book |-> [st.book EXCEPT ![year][month] = summed.ws],
         total_balance |-> st.total_balance
             + SheetBalance(summed.ws, year, month, up_to_date),
         month_carry |-> summed.cumulative,
         walk |-> Append(st.walk,
                     [year |-> year, month |-> month,
                      carry_in |-> st.month_carry,
                      cumulative |-> summed.cumulative])]

RECURSIVE WalkMonths(_, _, _, _)
WalkMonths(st, year, month, up_to_date) ==
    IF month \notin Months THEN st
    ELSE IF year = up_to_date[1] /\ month > up_to_date[2] THEN st
    ELSE WalkMonths(ProcessMonth(st, year, month, up_to_date),
                    year, month + 1, up_to_date)

RECURSIVE WalkYears(_, _, _, _, _)
WalkYears(st, year, tracked, carry, up_to_date) ==
    IF year > up_to_date[1] THEN st
    ELSE IF year \notin tracked
    THEN WalkYears(st, year + 1, tracked, carry, up_to_date)
    ELSE WalkYears(
             WalkMonths([st EXCEPT !.month_carry = get_carry_over(carry, year)],
                        year, 1, up_to_date),
             year + 1, tracked, carry, up_to_date)

\* the workbooks after the walk, the value returned and the walk
calculate_overtime_balance(book, tracked, carry, up_to_date) ==
    IF tracked = {}
    THEN [book |-> book, result |-> 0, walk |-> << >>]
    ELSE LET earliest_year == CHOOSE y \in tracked : \A z \in tracked : y <= z
             st == WalkYears([book |-> book,
                              total_balance |-> PreCarry(carry, earliest_year),
                              month_carry |-> 0,
                              walk |-> << >>],
                             earliest_year, tracked, carry, up_to_date)
         IN  [book |-> st.book, result |-> Round2(st.total_balance),
              walk |-> st.walk]

\* -------------------------------------------------- calculate_current_hours
\* slip: an open block is left without an exit
VirtualAus_None(row, b, now) == row.aus[b]

\* the Aus of block b, with now standing in for the Aus of an open block
VirtualAus(row, b, now) ==
    IF ~IsNone(row.ein[b]) /\ IsNone(row.aus[b]) THEN Some(now) ELSE row.aus[b]

\* slip: the deduction is taken from every total above the threshold
LiveAutoBreak_FlatDeduction(total_work) ==
    LET threshold == AutoBreakThresholdHours * 60
        deduction == AutoBreakDeductionMinutes * H4PerHour
    IN  IF total_work > threshold THEN total_work - deduction
        ELSE total_work

\* the break deduction on a total that is not rounded per block: the total
\* is in minutes * H4PerHour, i.e. in 1/60 of the hours unit
LiveAutoBreak(total_work) ==
    LET threshold == AutoBreakThresholdHours * 60
        deduction == AutoBreakDeductionMinutes * H4PerHour
    IN  IF total_work > threshold + deduction THEN total_work - deduction
        ELSE IF total_work > threshold THEN threshold
        ELSE total_work

\* None without a row or without any Ein, else round(total_work, 2)
calculate_current_hours(w, d, now) ==
    IF ~find_day_row(w, d) THEN None
    ELSE
    LET n == _count_blocks(w)
        row == [w.rows[d] EXCEPT
                   !.aus = [b \in 1 .. n |-> VirtualAus(w.rows[d], b, now)]]
        has_any == \E b \in 1 .. n : ~IsNone(row.ein[b])
        is_home == IsHome(row.status)
        first_ein_block == IF is_home THEN 0 ELSE FirstEinBlock(row, n)
        last_aus_block == IF is_home THEN 0 ELSE LastAusBlock(row, n)
        diff == [b \in 1 .. n |->
                   IF IsNone(row.ein[b]) \/ IsNone(row.aus[b]) THEN None
                   ELSE LET m == BlockMinutes(row, b, first_ein_block,
                                              last_aus_block)
                        IN  Some((IF m < 0 THEN 0 ELSE m) * H4PerHour)]
        total_work == LiveAutoBreak(SumHours(diff, n))
    IN  IF ~has_any THEN None
        ELSE Some(100 * RoundHalfEven(total_work, 60 * 100))

\* ------------------------------------------------------------- the machine
NoOp == [op |-> "none", day |-> 0, time |-> 0, home |-> FALSE,
         error |-> FALSE, block |-> 0]
NoProbe == [raw |-> 0, out |-> None]

\* sheets as ensure_workbook creates them: a row for each day with
\* configured hours; the stored Soll is the configured or an overridden one
Init ==
    /\ \E soll \in [Days -> {0, 1}] :
         ws = [num_blocks |-> INITIAL_BLOCKS,
               rows |-> [d \in Days |->
                   IF get_expected_hours(d) > 0
                   THEN NewRow(INITIAL_BLOCKS,
                               IF soll[d] = 1 THEN OverriddenExpected
                               ELSE get_expected_hours(d))
                   ELSE NoRow(INITIAL_BLOCKS)]]
         /\ (\A d \in Days : get_expected_hours(d) > 0 \/ soll[d] = 0)
    /\ last = NoOp
    /\ ops = 0
    /\ probe = NoProbe

\* stempel ein [--home] --time t --date d
ClockIn(d, t, is_home) ==
    /\ ops < MaxOps
    /\ EinBlockOf(ws, d) <= MaxBlocks
    /\ ws' = write_stamp_ein(ws, d, t, is_home)
    /\ last' = [op |-> "ein", day |-> d, time |-> t, home |-> is_home,
                error |-> FALSE, block |-> EinBlockOf(ws, d)]
    /\ ops' = ops + 1
    /\ UNCHANGED probe

\* stempel aus --time t --date d
ClockOut(d, t) ==
    /\ ops < MaxOps
    /\ ws' = write_stamp_aus(ws, d, t)
    /\ last' = [op |-> "aus", day |-> d, time |-> t, home |-> FALSE,
                error |-> (AusBlockOf(ws, d) = 0), block |-> AusBlockOf(ws, d)]
    /\ ops' = ops + 1
    /\ UNCHANGED probe

\* stempel update --date d
Update(d) ==
    /\ ops < MaxOps
    /\ ws' = recalculate_day(ws, d)
    /\ last' = [NoOp EXCEPT !.op = "update", !.day = d]
    /\ ops' = ops + 1
    /\ UNCHANGED probe

\* the sick override (stempel aus --krank, after the clock-out)
SetDaySick(d) ==
    /\ ops < MaxOps
    /\ ws' = set_day_sick(ws, d)
    /\ last' = [NoOp EXCEPT !.op = "krank", !.day = d]
    /\ ops' = ops + 1
    /\ UNCHANGED probe

\* fill_missing_days with cutoff up_to_date (stempel saldo)
FillMissingDays(up_to_date) ==
    /\ ops < MaxOps
    /\ ws' = fill_missing_days(ws, up_to_date)
    /\ last' = [NoOp EXCEPT !.op = "fill", !.day = up_to_date]
    /\ ops' = ops + 1
    /\ UNCHANGED probe

\* stempel status at time now: the live total of day d
LiveQuery(d, now) ==
    /\ ops < MaxOps
    /\ last' = [op |-> "live", day |-> d, time |-> now, home |-> FALSE,
                error |-> FALSE, block |-> 0,
                result |-> calculate_current_hours(ws, d, now)]
    /\ ops' = ops + 1
    /\ UNCHANGED << ws, probe >>

Next ==
    \/ \E d \in Days, t \in Times, h \in BOOLEAN : ClockIn(d, t, h)
    \/ \E d \in Days, t \in Times : ClockOut(d, t)
    \/ \E d \in Days : Update(d)
    \/ \E d \in Days : SetDaySick(d)
    \/ \E c \in Cutoffs : FillMissingDays(c)
    \/ \E d \in Days, now \in Times : LiveQuery(d, now)

Spec == Init /\ [][Next]_vars

TypeOK ==
    /\ ws.num_blocks \in INITIAL_BLOCKS .. MaxBlocks
    /\ ops \in 0 .. MaxOps

\* ------------------------------------------------------- claims: helpers
\* an operation of kind op was just applied (a real step, not a stutter)
Did(op) == ops' = ops + 1 /\ last'.op = op

\* blocks of a row with an Ein and no Aus (has_open_stamp)
OpenBlocks(row) ==
    {b \in DOMAIN row.ein : ~IsNone(row.ein[b]) /\ IsNone(row.aus[b])}

\* the stamp cells of a row, over the block indexes 1 .. n (empty beyond
\* the row's columns)
StampAt(cells, b) == IF b \in DOMAIN cells THEN cells[b] ELSE None

SameStampsExcept(row, row2, kind, skip) ==
    \A b \in 1 .. MaxBlocks + 1 :
        /\ (kind = "ein" /\ b = skip) \/ StampAt(row2.ein, b) = StampAt(row.ein, b)
        /\ (kind = "aus" /\ b = skip) \/ StampAt(row2.aus, b) = StampAt(row.aus, b)

OtherDaysUntouched(d) ==
    \A e \in Days \ {d} :
        /\ SameStampsExcept(ws.rows[e], ws'.rows[e], "none", 0)
        /\ ws'.rows[e].status = ws.rows[e].status
        /\ ws'.rows[e].gesamt = ws.rows[e].gesamt
        /\ ws'.rows[e].saldo = ws.rows[e].saldo

\* C1: a clock-out on a day with no open block raises the no-open-entry
\* error and writes no stamp; a clock-out on a day with an open block does
\* not raise and writes its time into an Aus cell: it succeeds exactly when
\* an open block exists.
C1_ClockOutNeedsOpenBlock ==
    [][Did("aus") =>
        LET d == last'.day
            open == OpenBlocks(ws.rows[d])
        IN  /\ last'.error <=> (open = {})
            /\ open = {} =>
                 SameStampsExcept(ws.rows[d], ws'.rows[d], "none", 0)
            /\ open # {} =>
                 \E b \in open : ws'.rows[d].aus[b] = Some(last'.time)]_vars

\* a clock-out was refused on a day that already holds a closed block
C1_Witness ==
    /\ last.op = "aus" /\ last.error
    /\ \E b \in DOMAIN ws.rows[last.day].aus : ~IsNone(ws.rows[last.day].aus[b])
    /\ OpenBlocks(ws.rows[last.day]) = {}

\* C2: a clock-in does not fail; it writes its time into the Ein of the
\* first block (in block order) whose Ein is empty, and when every block of
\* the sheet has an Ein on that row it appends one block and writes the time
\* into the new block; no other stamp cell of the row changes.
C2_ClockInFirstEmptyOrAppend ==
    [][Did("ein") =>
        LET d == last'.day
            n == ws.num_blocks
            empty == {b \in 1 .. n : IsNone(ws.rows[d].ein[b])}
            target == IF empty = {} THEN n + 1
                      ELSE CHOOSE b \in empty : \A c \in empty : b <= c
        IN  /\ ~last'.error
            /\ ws'.rows[d].exists
            /\ ws'.num_blocks = (IF empty = {} THEN n + 1 ELSE n)
            /\ ws'.rows[d].ein[target] = Some(last'.time)
            /\ SameStampsExcept(ws.rows[d], ws'.rows[d], "ein", target)]_vars

\* a clock-in found every block taken and landed in an appended block
C2_Witness ==
    /\ last.op = "ein"
    /\ last.block = INITIAL_BLOCKS + 1
    /\ ws.num_blocks = INITIAL_BLOCKS + 1
    /\ ws.rows[last.day].ein[INITIAL_BLOCKS + 1] = Some(last.time)

\* C3: a successful clock-out writes its time into the Aus of the open
\* block with the highest index (the most recently created open block),
\* whatever the times of day are, and changes no other Ein or Aus cell.
C3_ClockOutClosesLastOpen ==
    [][Did("aus") /\ ~last'.error =>
        LET d == last'.day
            open == OpenBlocks(ws.rows[d])
            target == CHOOSE b \in open : \A c \in open : b >= c
        IN  /\ open # {}
            /\ ws'.rows[d].aus[target] = Some(last'.time)
            /\ SameStampsExcept(ws.rows[d], ws'.rows[d], "aus", target)
            /\ OtherDaysUntouched(d)]_vars

\* a clock-out closed a block while an older block with a later Ein time
\* stays open
C3_Witness ==
    /\ last.op = "aus" /\ ~last.error
    /\ \E b \in OpenBlocks(ws.rows[last.day]) :
          /\ b < last.block
          /\ Val(ws.rows[last.day].ein[b]) > Val(ws.rows[last.day].ein[last.block])

\* C4: the clock-in that fills block 1 sets the day status to Home or
\* Office per its flag; any other clock-in (whatever its flag) and every
\* clock-out, refused or not, leave the status of every day as it was.
C4_StatusSetByFirstClockIn ==
    [][/\ Did("ein") =>
            LET d == last'.day
            IN  /\ ws'.rows[d].status =
                     (IF last'.block = 1
                      THEN (IF last'.home THEN "Home" ELSE "Office")
                      ELSE ws.rows[d].status)
                /\ last'.block = 1 <=> ~has_stamps(ws.rows[d], ws.num_blocks)
                /\ \A e \in Days \ {d} : ws'.rows[e].status = ws.rows[e].status
       /\ Did("aus") =>
            \A e \in Days : ws'.rows[e].status = ws.rows[e].status]_vars

\* a second clock-in with the home flag on an Office day left it Office
C4_Witness ==
    /\ last.op = "ein" /\ last.block = 2 /\ last.home
    /\ ws.rows[last.day].status = "Office"

\* recalculate_day has just run on the row of day d
Recalculated(d) ==
    /\ last.day = d
    /\ last.op \in {"ein", "update"} \/ (last.op = "aus" /\ ~last.error)
    /\ ws.rows[d].exists

Closed(row, b) == ~IsNone(row.ein[b]) /\ ~IsNone(row.aus[b])

Max0(m) == IF m < 0 THEN 0 ELSE m

\* minutes of travel offset the claim grants block b of a row
OffsetMinutes(row, b) ==
    LET withEin == {c \in DOMAIN row.ein : ~IsNone(row.ein[c])}
        withAus == {c \in DOMAIN row.aus : ~IsNone(row.aus[c])}
    IN  (IF \A c \in withEin : b <= c THEN TravelOffsetMinutes ELSE 0)
      + (IF \A c \in withAus : b >= c THEN TravelOffsetMinutes ELSE 0)

\* C5: after recalculation of a day whose status is not Home, a closed
\* block's hours are its duration exit - entry (floored at 0), lengthened by
\* the offset if it is the first block with an entry and by the offset if it
\* is the last block with an exit, and by nothing otherwise; a block that is
\* both (a single closed block) gets exit - entry + 2 * offset.  Hours are
\* compared in whole minutes as formatHours shows them.
C5_OfficeOffsetOnFirstEntryLastExit ==
    \A d \in Days :
        Recalculated(d) /\ ws.rows[d].status # "Home" =>
            LET row == ws.rows[d]
            IN  \A b \in 1 .. ws.num_blocks :
                    IF Closed(row, b)
                    THEN /\ ~IsNone(row.stunden[b])
                         /\ FmtTotalMinutes(_read_hours_value(row.stunden[b]))
                              = Max0(Val(row.aus[b]) - Val(row.ein[b])
                                     + OffsetMinutes(row, b))
                    ELSE IsNone(row.stunden[b])

\* an Office day recalculated with the single block 09:00-17:00 shows 8:04;
\* (484 minutes)
C5_Witness ==
    \E d \in Days :
        /\ Recalculated(d) /\ ws.rows[d].status = "Office"
        /\ ws.rows[d].ein[1] = Some(540) /\ ws.rows[d].aus[1] = Some(1020)
        /\ IsNone(ws.rows[d].ein[2])
        /\ FmtTotalMinutes(_read_hours_value(ws.rows[d].stunden[1])) = 484

\* C6: after recalculation of a day whose status is Home, every closed
\* block's hours are exactly its duration exit - entry (floored at 0), with
\* no offset, however many blocks the day has.
C6_HomeNoOffset ==
    \A d \in Days :
        Recalculated(d) /\ ws.rows[d].status = "Home" =>
            LET row == ws.rows[d]
            IN  \A b \in 1 .. ws.num_blocks :
                    IF Closed(row, b)
                    THEN LET m == Max0(Val(row.aus[b]) - Val(row.ein[b]))
                         IN  /\ ~IsNone(row.stunden[b])
                             /\ FmtTotalMinutes(
                                    _read_hours_value(row.stunden[b])) = m
                             /\ m % 3 = 0 =>
                                  _read_hours_value(row.stunden[b]) * 60
                                      = m * H4PerHour
                    ELSE IsNone(row.stunden[b])

\* a Home day recalculated with two closed blocks 09:00-17:00 of exactly
\* 8.00 hours each
C6_Witness ==
    \E d \in Days :
        /\ Recalculated(d) /\ ws.rows[d].status = "Home"
        /\ \A b \in 1 .. 2 :
              /\ ws.rows[d].ein[b] = Some(540) /\ ws.rows[d].aus[b] = Some(1020)
              /\ _read_hours_value(ws.rows[d].stunden[b]) = 8 * H4PerHour

\* ------------------------------------------- the break policy on its own
\* raw day totals as recalculate_day sums them: round(minutes / 60, 4)
InitBreak ==
    /\ ws = [num_blocks |-> INITIAL_BLOCKS,
             rows |-> [d \in Days |-> NoRow(INITIAL_BLOCKS)]]
    /\ last = NoOp
    /\ ops = 0
    /\ \E m \in 0 .. MaxRawMinutes :
          probe = [raw |-> Round4OfMinutes(m), out |-> None]

ApplyBreak ==
    /\ IsNone(probe.out)
    /\ probe' = [probe EXCEPT !.out = Some(AutoBreak(probe.raw))]
    /\ UNCHANGED << ws, last, ops >>

NextBreak == ApplyBreak

SpecBreak == InitBreak /\ [][NextBreak]_vars

\* C7: with threshold T = 6.0 h and deduction d = 30 min the break policy
\* maps a raw total t to t when t <= T, to T when T < t <= T + d/60, and to
\* t - d/60 when t > T + d/60; 6.2 h gives 6.0 h, 6.6 h gives 6.1 h and
\* 6.5 h gives 6.0 h.
C7_BreakPolicyThreeRanges ==
    ~IsNone(probe.out) =>
        LET t == probe.raw
            T == 6 * H4PerHour
            d60 == H4PerHour \div 2
            out == Val(probe.out)
        IN  /\ t <= T => out = t
            /\ T < t /\ t <= T + d60 => out = T
            /\ t > T + d60 => out = t - d60
            /\ t = 62000 => out = 60000
            /\ t = 66000 => out = 61000
            /\ t = 65000 => out = 60000

\* the policy was applied to a raw total of 6.2 h, inside the clamped range
C7_Witness ==
    /\ probe.raw = 62000
    /\ probe.out = Some(60000)

\* ------------------------------------------------ claims on the day ledger
\* what read_day_row reports of a row: block hours, total, balance
Computed(row) == << row.stunden, row.gesamt, row.saldo >>

\* C8: recalculating a day a second time, with stamps, status and expected
\* hours unchanged, yields the same block hours, total and balance as the
\* first recalculation, in every reachable state of the sheet.
C8_RecalculateIdempotent ==
    \A d \in Days :
        LET once == recalculate_day(ws, d)
            twice == recalculate_day(once, d)
        IN  /\ Computed(twice.rows[d]) = Computed(once.rows[d])
            /\ twice = once

\* update ran on a day that write_stamp had already recalculated: a closed
\* block, an open block and a total are on the row
C8_Witness ==
    /\ last.op = "update"
    /\ ws.rows[last.day].exists
    /\ \E b \in 1 .. ws.num_blocks : Closed(ws.rows[last.day], b)
    /\ OpenBlocks(ws.rows[last.day]) # {}
    /\ ~IsNone(ws.rows[last.day].gesamt)
    /\ ws = recalculate_day(ws, last.day)

\* the expected hours read_day_row reports
ExpectedOf(row) == IF IsNone(row.soll) THEN 0 ELSE _read_hours_value(row.soll)

\* C9: right after the sick override on an existing day the status is Sick,
\* the total equals the expected hours and the balance is 0, whatever the
\* stamps; a second override leaves the sheet unchanged.
C9_SickOverride ==
    last.op = "krank" /\ ws.rows[last.day].exists =>
        LET row == ws.rows[last.day]
        IN  /\ row.status = "Krank"
            /\ ~IsNone(row.gesamt)
            /\ _read_hours_value(row.gesamt) = ExpectedOf(row)
            /\ row.saldo = Some(0)
            /\ set_day_sick(ws, last.day) = ws

\* the override hit a day with a closed block whose hours differ from the
\* expected hours, which are not the configured ones
C9_Witness ==
    /\ last.op = "krank" /\ ws.rows[last.day].exists
    /\ \E b \in 1 .. ws.num_blocks :
          /\ Closed(ws.rows[last.day], b)
          /\ _read_hours_value(ws.rows[last.day].stunden[b])
                 # ExpectedOf(ws.rows[last.day])
    /\ ExpectedOf(ws.rows[last.day]) # get_expected_hours(last.day)

NoStamps(row) ==
    \A b \in DOMAIN row.ein : IsNone(row.ein[b]) /\ IsNone(row.aus[b])

\* C10: fill-missing-days with cutoff C changes exactly the rows dated
\* before C that have no stamp and no total, giving them total = expected
\* and balance 0; every other row is left as it was, and a second run with
\* the same cutoff changes nothing.
C10_FillOnlyBlankPastRows ==
    [][Did("fill") =>
        LET C == last'.day
        IN  /\ \A d \in Days :
                 IF /\ ws.rows[d].exists /\ d < C
                    /\ NoStamps(ws.rows[d]) /\ IsNone(ws.rows[d].gesamt)
                 THEN /\ ws'.rows[d] # ws.rows[d]
                      /\ ~IsNone(ws'.rows[d].gesamt)
                      /\ _read_hours_value(ws'.rows[d].gesamt)
                             = ExpectedOf(ws'.rows[d])
                      /\ ws'.rows[d].saldo = Some(0)
                 ELSE ws'.rows[d] = ws.rows[d]
            /\ ws'.num_blocks = ws.num_blocks
            /\ fill_missing_days(ws', C) = ws']_vars

\* a fill left a stamped row before the cutoff alone and filled a blank one
C10_Witness ==
    /\ last.op = "fill"
    /\ \E d \in Days :
          /\ d < last.day /\ ws.rows[d].exists /\ NoStamps(ws.rows[d])
          /\ ws.rows[d].saldo = Some(0) /\ ws.rows[d].status = ""
    /\ \E d \in Days :
          /\ d < last.day /\ ws.rows[d].exists /\ ~NoStamps(ws.rows[d])
          /\ ws.rows[d].saldo # Some(0)

\* the sheet with every open block of day d closed at time now
ClosedAt(w, d, now) ==
    [w EXCEPT !.rows[d].aus =
        [b \in DOMAIN @ |->
            IF b \in OpenBlocks(w.rows[d]) THEN Some(now) ELSE @[b]]]

\* C16: the live query changes nothing stored (stamps, block hours, status,
\* total, balance); it returns null exactly when the day has no row or no
\* stamp; otherwise it returns what it returns for the same day with every
\* open block closed at the current time, whatever the time then is.
C16_LiveQueryReadsOnly ==
    [][Did("live") =>
        LET d == last'.day
            now == last'.time
        IN  /\ ws' = ws
            /\ IsNone(last'.result)
                 <=> (~ws.rows[d].exists \/ NoStamps(ws.rows[d]))
            /\ \A t \in Times :
                 last'.result
                     = calculate_current_hours(ClosedAt(ws, d, now), d, t)]_vars

\* a live total was returned for a day with a closed and an open block, and
\* it counts the open block up to the current time
C16_Witness ==
    /\ last.op = "live" /\ ~IsNone(last.result)
    /\ OpenBlocks(ws.rows[last.day]) # {}
    /\ \E b \in 1 .. ws.num_blocks : Closed(ws.rows[last.day], b)
    /\ \E t \in Times :
          calculate_current_hours(ws, last.day, t) # last.result

\* C18: after a clock-in that leaves the day without a closed block, the
\* recalculation it triggers leaves the day's total unset.
C18_TotalUnsetWithoutClosedBlock ==
    \A d \in Days :
        /\ last.op = "ein" /\ last.day = d
        /\ \A b \in 1 .. ws.num_blocks : ~Closed(ws.rows[d], b)
        => IsNone(ws.rows[d].gesamt)

\* C19: every day row with a stored total has a stored balance, and the
\* balance is the total minus the row's expected hours.
C19_BalanceIsTotalMinusExpected ==
    \A d \in Days :
        ~IsNone(ws.rows[d].gesamt) =>
            /\ ~IsNone(ws.rows[d].saldo)
            /\ _read_hours_value(ws.rows[d].saldo)
                 = _read_hours_value(ws.rows[d].gesamt) - ExpectedOf(ws.rows[d])

\* a filled row and a recalculated row with a non-zero balance side by side
C19_Witness ==
    /\ \E d \in Days :
          /\ NoStamps(ws.rows[d]) /\ ~IsNone(ws.rows[d].gesamt)
          /\ ws.rows[d].status = ""
    /\ \E d \in Days :
          /\ \E b \in 1 .. ws.num_blocks : Closed(ws.rows[d], b)
          /\ ~IsNone(ws.rows[d].saldo)
          /\ _read_hours_value(ws.rows[d].saldo) # 0

\* ------------------------------------------------ a single block on its own
\* one Home block stamped on a fresh day: every Ein of BlockEntries with
\* every Aus of the same day that is not before it
InitBlock ==
    /\ ws = [num_blocks |-> INITIAL_BLOCKS,
             rows |-> [d \in Days |->
                 IF d = 1 THEN NewRow(INITIAL_BLOCKS, get_expected_hours(1))
                 ELSE NoRow(INITIAL_BLOCKS)]]
    /\ last = NoOp
    /\ ops = 0
    /\ \E ein \in BlockEntries : \E aus \in ein .. MinutesPerDay - 1 :
          probe = [ein |-> ein, aus |-> aus, done |-> FALSE]

\* stempel ein --home --time, then stempel aus --time: each recalculates the day
StampBlock ==
    /\ ~probe.done
    /\ ws' = write_stamp_aus(write_stamp_ein(ws, 1, probe.ein, TRUE),
                             1, probe.aus)
    /\ probe' = [probe EXCEPT !.done = TRUE]
    /\ UNCHANGED << last, ops >>

NextBlock == StampBlock

SpecBlock == InitBlock /\ [][NextBlock]_vars

\* C20: for every entry and exit minute of one day with exit >= entry, the
\* block hours stored for the pair (the difference in hours, rounded to two
\* decimals), times 60 and rounded to whole minutes as _fmt_hours does, are
\* exactly the exit minute minus the entry minute.
C20_HoursRoundTripToMinutes ==
    probe.done =>
        /\ ~IsNone(ws.rows[1].stunden[1])
        /\ FmtTotalMinutes(_read_hours_value(ws.rows[1].stunden[1]))
             = probe.aus - probe.ein

\* a stamped block whose length is no whole number of hundredths of an hour
C20_Witness ==
    /\ probe.done
    /\ probe.aus - probe.ein = 1439
    /\ _read_hours_value(ws.rows[1].stunden[1]) = 239800

\* ------------------------------------------- the overtime balance on its own
\* what a month sheet holds before the balance is asked for
SheetKinds == {"blank", "worked", "open", "typed"}

\* a new month sheet: a row for the scheduled day, empty summary rows
FreshSheet(expected) ==
    [num_blocks |-> INITIAL_BLOCKS,
     rows |-> [d \in Days |->
         IF get_expected_hours(d) > 0 THEN NewRow(INITIAL_BLOCKS, expected)
         ELSE NoRow(INITIAL_BLOCKS)],
     summary |-> NewSummary]

\* blank:  no stamp, the Soll of day 1 edited by hand
\* worked: day 1 09:00-17:00 Office, day 2 09:00-17:00 Home
\* open:   day 1 clocked in at 09:00 and never out
\* typed:  a Gesamt typed into the row of day 1 by hand, no Saldo
SheetOf(kind) ==
    LET fresh == FreshSheet(get_expected_hours(1))
    IN  IF kind = "blank" THEN FreshSheet(OverriddenExpected)
        ELSE IF kind = "worked"
        THEN write_stamp_aus(
                 write_stamp_ein(
                     write_stamp_aus(write_stamp_ein(fresh, 1, 540, FALSE),
                                     1, 1020),
                     2, 540, TRUE),
                 2, 1020)
        ELSE IF kind = "open" THEN write_stamp_ein(fresh, 1, 540, FALSE)
        ELSE [fresh EXCEPT !.rows[1].gesamt =
                 Some(_hours_to_fraction(8 * H4PerHour + H4PerHour \div 2))]

Sheets == [kind \in SheetKinds |-> SheetOf(kind)]

\* carry_over_balance of the configuration: 1.2534 h for year 0, 5.0 h else
CarryValue(y) == IF y = 0 THEN 12534 ELSE 5 * H4PerHour

InitAcc ==
    /\ ws = [num_blocks |-> INITIAL_BLOCKS,
             rows |-> [d \in Days |-> NoRow(INITIAL_BLOCKS)]]
    /\ last = NoOp
    /\ ops = 0
    /\ \E tracked \in SUBSET Years, configured \in SUBSET CarryYears,
          kinds \in [Years -> [Months -> SheetKinds]],
          up_to_date \in Years \X Months \X Cutoffs :
          /\ \A y \in Years \ tracked : \A m \in Months : kinds[y][m] = "blank"
          /\ probe = [tracked |-> tracked,
                      initial |-> [y \in Years |-> [m \in Months |->
                                      Sheets[kinds[y][m]]]],
                      book |-> [y \in Years |-> [m \in Months |->
                                      Sheets[kinds[y][m]]]],
                      carry |-> [y \in CarryYears |->
                                    IF y \in configured THEN Some(CarryValue(y))
                                    ELSE None],
                      up_to_date |-> up_to_date,
                      done |-> FALSE, result |-> 0, walk |-> << >>]

\* stempel saldo
Overtime ==
    /\ ~probe.done
    /\ LET r == calculate_overtime_balance(probe.book, probe.tracked,
                                           probe.carry, probe.up_to_date)
       IN  probe' = [probe EXCEPT !.book = r.book, !.result = r.result,
                                  !.walk = r.walk, !.done = TRUE]
    /\ UNCHANGED << ws, last, ops >>

NextAcc == Overtime

SpecAcc == InitAcc /\ [][NextAcc]_vars

\* the earliest year with a workbook
EarliestYear == CHOOSE y \in probe.tracked : \A z \in probe.tracked : y <= z

\* the hours a cell holds, 0 for an empty cell
ReadOr0(cell) == IF IsNone(cell) THEN 0 ELSE _read_hours_value(cell)

\* the sheet a step of the walk worked on, as the walk left it
WalkSheet(e) == probe.book[e.year][e.month]

\* C11: recomputing a period summary stores total_worked, total_expected and
\* total_balance as the sums of the day rows' total, expected and balance,
\* stores carry_in, and stores and returns cumulative = carry_in +
\* total_balance rounded to two decimals; within one year the value returned
\* for a month is the carry_in of the next month.
C11_SummarySumsAndChain ==
    probe.done =>
        \A i \in 1 .. Len(probe.walk) :
            LET e == probe.walk[i]
                rows == WalkSheet(e).rows
                summary == WalkSheet(e).summary
                balance == ReadOr0(rows[1].saldo) + ReadOr0(rows[2].saldo)
            IN  /\ summary.gesamt = Some(_hours_to_fraction(Round2(
                       ReadOr0(rows[1].gesamt) + ReadOr0(rows[2].gesamt))))
                /\ summary.soll = Some(_hours_to_fraction(Round2(
                       ReadOr0(rows[1].soll) + ReadOr0(rows[2].soll))))
                /\ summary.saldo = Some(_hours_to_fraction(Round2(balance)))
                /\ summary.uebertrag
                     = Some(_hours_to_fraction(Round2(e.carry_in)))
                /\ e.cumulative = Round2(e.carry_in + balance)
                /\ summary.kumuliert = Some(_hours_to_fraction(e.cumulative))
                /\ i < Len(probe.walk) /\ probe.walk[i + 1].year = e.year
                     => probe.walk[i + 1].carry_in = e.cumulative

\* two months of one year chained with a non-zero carry, the second month
\* holding a typed total that has no balance
C11_Witness ==
    /\ probe.done
    /\ \E i \in 1 .. Len(probe.walk) - 1 :
          /\ probe.walk[i + 1].year = probe.walk[i].year
          /\ probe.walk[i].carry_in # 0
          /\ probe.walk[i].cumulative # probe.walk[i].carry_in
          /\ probe.walk[i + 1].cumulative = probe.walk[i + 1].carry_in
          /\ ~IsNone(WalkSheet(probe.walk[i + 1]).rows[1].gesamt)
          /\ IsNone(WalkSheet(probe.walk[i + 1]).rows[1].saldo)

\* what the day rows before the cutoff add up to: the stored balance of a
\* row, or total - expected where a total is stored without a balance
BalanceOfRow(row) ==
    IF ~IsNone(row.saldo) THEN _read_hours_value(row.saldo)
    ELSE IF ~IsNone(row.gesamt)
    THEN _read_hours_value(row.gesamt) - ReadOr0(row.soll)
    ELSE 0

RECURSIVE SumBalances(_)
SumBalances(dates) ==
    IF dates = {} THEN 0
    ELSE LET dt == CHOOSE x \in dates : TRUE
         IN  BalanceOfRow(probe.book[dt[1]][dt[2]].rows[dt[3]])
             + SumBalances(dates \ {dt})

DayBalancesBeforeCutoff ==
    SumBalances({dt \in probe.tracked \X Months \X Days :
                    DateBefore(dt, probe.up_to_date)})

\* the configured carry-overs of the years before the earliest workbook
CarryBefore(year) ==
    LET c == [y \in CarryYears |->
                 IF y < year /\ ~IsNone(probe.carry[y])
                 THEN Val(probe.carry[y]) ELSE 0]
    IN  c[0] + c[1] + c[2]

\* C12: with a carry-over configured for the first tracked year and nothing
\* before that year, the accumulator returns that carry-over plus the sum of
\* the day balances before the cutoff (5.0 and balances of 2.0 give 7.0).
C12_FirstYearCarryInGrandTotal ==
    /\ probe.done /\ probe.tracked # {}
    /\ ~IsNone(probe.carry[EarliestYear])
    /\ CarryBefore(EarliestYear) = 0
    => probe.result
         = Round2(Val(probe.carry[EarliestYear]) + DayBalancesBeforeCutoff)

\* the balance with the same workbooks and no carry-over configured at all
ResultWithoutCarry ==
    calculate_overtime_balance(probe.initial, probe.tracked,
                               [y \in CarryYears |-> None],
                               probe.up_to_date).result

\* C13: the grand total includes the configured carry-over of every year
\* strictly before the earliest tracked year, each once, and no other; the
\* result is rounded to two decimals.
C13_GrandTotalHasEarlierCarry ==
    probe.done /\ probe.tracked # {} =>
        /\ probe.result
             = Round2(CarryBefore(EarliestYear) + ResultWithoutCarry)
        /\ probe.result % 100 = 0

\* tracking starts in year 2 with carry-overs configured for years 0, 1 and
\* 2: 1.2534 + 5.0 is added and rounded, the 5.0 of year 2 is not
C13_Witness ==
    /\ probe.done /\ probe.tracked = {2}
    /\ \A y \in CarryYears : ~IsNone(probe.carry[y])
    /\ ResultWithoutCarry # 0
    /\ probe.result = ResultWithoutCarry + 62500

\* C14: walking the periods in order, the first period of a year gets the
\* carry-over configured for that year as carry_in when one is set; every
\* other period, January of a year without a configured carry-over too, gets
\* the cumulative computed for the period before it.
C14_CarryInConfiguredElsePrior ==
    probe.done =>
        \A i \in 1 .. Len(probe.walk) :
            LET e == probe.walk[i]
                first_of_year == i = 1 \/ probe.walk[i - 1].year # e.year
            IN  e.carry_in
                  = IF first_of_year /\ ~IsNone(probe.carry[e.year])
                    THEN Val(probe.carry[e.year])
                    ELSE IF i = 1 THEN 0
                    ELSE probe.walk[i - 1].cumulative

\* the configuration with the carry-over of every tracked or later year
\* switched: set where it was unset, unset where it was set
CarrySwitched ==
    [y \in CarryYears |->
        IF y < EarliestYear THEN probe.carry[y]
        ELSE IF IsNone(probe.carry[y]) THEN Some(CarryValue(y))
        ELSE None]

\* C15: the grand total is made of every day row dated before the cutoff and
\* of no row dated on or after it, a row counting with its stored balance or,
\* without one, with total - expected; the carry_in and cumulative of the
\* periods do not enter it.
C15_DayRowsBeforeCutoffOnly ==
    probe.done /\ probe.tracked # {} =>
        /\ probe.result - Round2(CarryBefore(EarliestYear))
             = DayBalancesBeforeCutoff
        /\ probe.result
             = calculate_overtime_balance(probe.initial, probe.tracked,
                                          CarrySwitched,
                                          probe.up_to_date).result

\* the cutoff is day 2 of a worked month: day 1 counts, day 2 with its
\* balance of 7.5 h does not; the month before holds a typed total
C15_Witness ==
    /\ probe.done /\ probe.tracked = {1}
    /\ probe.up_to_date = << 1, 2, 2 >>
    /\ ReadOr0(probe.book[1][2].rows[2].saldo) = 75000
    /\ ReadOr0(probe.book[1][2].rows[1].saldo) = -4300
    /\ IsNone(probe.book[1][1].rows[1].saldo)
    /\ ~IsNone(probe.book[1][1].rows[1].gesamt)
    /\ ~IsNone(probe.carry[1])
    /\ probe.result = Round2(CarryBefore(1)) + 5000 - 4300

\* the day rows of a sheet that have no Gesamt
Uncomputed(w) == {d \in Days : w.rows[d].exists /\ IsNone(w.rows[d].gesamt)}

\* the sheet without those rows
WithoutUncomputed(w) ==
    [w EXCEPT !.rows = [d \in Days |->
        IF d \in Uncomputed(w) THEN NoRow(w.num_blocks) ELSE w.rows[d]]]

\* the summary rows of the sheet of a step of the walk, recomputed from the
\* sheet with and without its rows that have no Gesamt
SummaryWith(e) ==
    recalculate_sheet_summary(WalkSheet(e), e.carry_in).ws.summary

SummaryWithout(e) ==
    recalculate_sheet_summary(WithoutUncomputed(WalkSheet(e)),
                              e.carry_in).ws.summary

\* C17 as stated: a day row without a computed total contributes 0 to
\* total_worked, total_expected and total_balance of the period summary.
C17_UncomputedRowsAddNothing ==
    probe.done =>
        \A i \in 1 .. Len(probe.walk) :
            /\ WalkSheet(probe.walk[i]).summary = SummaryWith(probe.walk[i])
            /\ SummaryWith(probe.walk[i]) = SummaryWithout(probe.walk[i])

\* C17 amended: a day row without a computed total contributes 0 to
\* total_worked and total_balance (and so to cumulative), while its stored
\* expected hours are part of total_expected.
C17_UncomputedRowsAddExpectedOnly ==
    probe.done =>
        \A i \in 1 .. Len(probe.walk) :
            LET e == probe.walk[i]
                with == SummaryWith(e)
                without == SummaryWithout(e)
                rows == WalkSheet(e).rows
                expected == [d \in Days |->
                    IF d \in Uncomputed(WalkSheet(e))
                    THEN ReadOr0(rows[d].soll) ELSE 0]
            IN  /\ WalkSheet(e).summary = with
                /\ with.gesamt = without.gesamt
                /\ with.saldo = without.saldo
                /\ with.kumuliert = without.kumuliert
                /\ Val(with.soll)
                     = Val(without.soll)
                       + _hours_to_fraction(expected[1] + expected[2])

\* a summary over a blank row on the cutoff day, left unfilled: its 6 h of
\* expected hours are in the Soll sum, Gesamt and Saldo sums are 0
C17_Witness ==
    /\ probe.done
    /\ \E i \in 1 .. Len(probe.walk) :
          /\ Uncomputed(WalkSheet(probe.walk[i])) = {1}
          /\ NoStamps(WalkSheet(probe.walk[i]).rows[1])
          /\ WalkSheet(probe.walk[i]).summary.soll
               = Some(_hours_to_fraction(OverriddenExpected))
          /\ WalkSheet(probe.walk[i]).summary.gesamt = Some(0)
          /\ WalkSheet(probe.walk[i]).summary.saldo = Some(0)

\* ------------------------------------------- claims on the day ledger, II
\* minutes of a closed block with the travel offset of a day that is not Home
AdjustedMinutes(row, b) ==
    Max0(Val(row.aus[b]) - Val(row.ein[b])
         + (IF row.status = "Home" THEN 0 ELSE OffsetMinutes(row, b)))

\* the day's raw total: the closed blocks' durations in hours, each rounded
\* to four decimals
RawTotal(row, n) ==
    SumHours([b \in 1 .. n |->
                 IF Closed(row, b)
                 THEN Some(RoundHalfEven(AdjustedMinutes(row, b) * H4PerHour, 60))
                 ELSE None], n)

\* the sum of the block hours stored on the row
StoredBlockSum(row, n) ==
    SumHours([b \in 1 .. n |->
                 IF IsNone(row.stunden[b]) THEN None
                 ELSE Some(_read_hours_value(row.stunden[b]))], n)

\* C21 as stated: the stored total of a recalculated day under the break
\* threshold equals the sum of its stored block hours (each the block
\* duration rounded to two decimals).
C21_TotalIsSumOfStoredBlockHours ==
    \A d \in Days :
        /\ Recalculated(d)
        /\ RawTotal(ws.rows[d], ws.num_blocks) <= AutoBreakThresholdHours
        => _read_hours_value(ws.rows[d].gesamt)
             = StoredBlockSum(ws.rows[d], ws.num_blocks)

\* C21 amended: total_work is the sum of the block durations each rounded to
\* four decimals, not of the two-decimal block hours stored; the stored
\* total of a recalculated day under the break threshold is that sum rounded
\* to two decimals, and it is within 0.01 h per closed block of the sum of
\* the stored block hours.
C21_TotalIsRoundedSumOfDurations ==
    \A d \in Days :
        /\ Recalculated(d)
        /\ RawTotal(ws.rows[d], ws.num_blocks) <= AutoBreakThresholdHours
        => LET row == ws.rows[d]
               n == ws.num_blocks
               gesamt == _read_hours_value(row.gesamt)
               closed == Cardinality({b \in 1 .. n : Closed(row, b)})
           IN  /\ gesamt = Round2(RawTotal(row, n))
               /\ Abs(gesamt - StoredBlockSum(row, n)) <= 100 * closed

\* two blocks of two minutes each on an Office day: 0.03 h is stored for
\* each and 0.07 h for the day
C21_Witness ==
    \E d \in Days :
        /\ Recalculated(d) /\ ws.rows[d].status = "Office"
        /\ Closed(ws.rows[d], 1) /\ Closed(ws.rows[d], 2)
        /\ IsNone(ws.rows[d].ein[3])
        /\ AdjustedMinutes(ws.rows[d], 1) = 2
        /\ AdjustedMinutes(ws.rows[d], 2) = 2
        /\ StoredBlockSum(ws.rows[d], ws.num_blocks) = 600
        /\ _read_hours_value(ws.rows[d].gesamt) = 700

\* C22: on an Office day, the recalculation that follows a clock-in opening
\* a new block after the block that held the last exit leaves that block
\* without the exit-side travel offset.
C22_ClockInRemovesExitOffset ==
    [][Did("ein") =>
        LET d == last'.day
            row == ws'.rows[d]
            ended == {b \in 1 .. ws.num_blocks : ~IsNone(ws.rows[d].aus[b])}
        IN  \A b \in ended :
                /\ row.status = "Office" /\ Closed(row, b)
                /\ \A c \in ended : c <= b
                /\ b < last'.block
                => FmtTotalMinutes(_read_hours_value(row.stunden[b]))
                     = Max0(Val(row.aus[b]) - Val(row.ein[b])
                            + (IF \A c \in 1 .. b - 1 : IsNone(row.ein[c])
                               THEN TravelOffsetMinutes ELSE 0))]_vars

\* the stamps of a row that are set, as (kind, block, time)
Stamps(row) ==
    {<< "ein", b, Val(row.ein[b]) >> : b \in {c \in DOMAIN row.ein :
                                                  ~IsNone(row.ein[c])}}
    \cup {<< "aus", b, Val(row.aus[b]) >> : b \in {c \in DOMAIN row.aus :
                                                  ~IsNone(row.aus[c])}}

\* C24: on every day, every block whose exit is set has its entry set, and
\* the blocks with an entry are a prefix of the block sequence without gaps.
C24_ExitHasEntryAndEntriesArePrefix ==
    \A d \in Days : \A b \in 1 .. ws.num_blocks :
        /\ ~IsNone(ws.rows[d].aus[b]) => ~IsNone(ws.rows[d].ein[b])
        /\ ~IsNone(ws.rows[d].ein[b])
             => \A c \in 1 .. b - 1 : ~IsNone(ws.rows[d].ein[c])

\* a day with two closed blocks and an open block between them, beside
\* a day without any stamp
C24_Witness ==
    /\ \E d \in Days :
          /\ Closed(ws.rows[d], 1) /\ Closed(ws.rows[d], 3)
          /\ OpenBlocks(ws.rows[d]) = {2}
    /\ \E d \in Days : Stamps(ws.rows[d]) = {}

\* C25: a clock-out that fails with the no-open-entry error leaves the
\* ledger as it was: no stamp, status, block hours, total or balance
\* changes, no day row is created, no recalculation runs.
C25_FailedClockOutChangesNothing ==
    [][Did("aus") /\ last'.error => ws' = ws]_vars

\* every stamp of row is in the same cell of row2
StampsKept(row, row2) ==
    \A b \in DOMAIN row.ein :
        /\ IsNone(row.ein[b]) \/ StampAt(row2.ein, b) = row.ein[b]
        /\ IsNone(row.aus[b]) \/ StampAt(row2.aus, b) = row.aus[b]

\* number of stamp cells of a row that are filled
NumStamps(row) ==
    Cardinality({b \in DOMAIN row.ein : ~IsNone(row.ein[b])})
    + Cardinality({b \in DOMAIN row.aus : ~IsNone(row.aus[b])})

\* C26: no day starts with an open block; a clock-in raises the number of
\* open blocks of its day by one, a successful clock-out lowers it by one, a
\* refused clock-out and every other operation leave it alone, so that the
\* number of open blocks of a day is its clock-ins minus its successful
\* clock-outs; and no step overwrites or clears a stamp that is set.
C26_OpenBlocksCountAndStampsKept ==
    /\ \A d \in Days : Stamps(ws.rows[d]) = {}
    /\ [][\A d \in Days :
            LET row == ws.rows[d]
                row2 == ws'.rows[d]
                open == Cardinality(OpenBlocks(row))
                open2 == Cardinality(OpenBlocks(row2))
                mine == last'.day = d /\ ops' = ops + 1
                step == IF mine /\ last'.op = "ein" THEN 1
                        ELSE IF mine /\ last'.op = "aus" /\ ~last'.error
                        THEN 0 - 1
                        ELSE 0
            IN  \* a row the step leaves as it is keeps its stamps and its
                \* open blocks: the step must not have been due to change it
                IF row2 = row THEN step = 0
                ELSE /\ StampsKept(row, row2)
                     /\ open2 = open + step
                     /\ NumStamps(row2)
                          = NumStamps(row) + (IF open2 = open THEN 0 ELSE 1)]_vars

\* three clock-ins and one clock-out on a day: two blocks are open
C26_Witness ==
    /\ last.op = "aus" /\ ~last.error
    /\ Cardinality(OpenBlocks(ws.rows[last.day])) = 2
    /\ Cardinality(Stamps(ws.rows[last.day])) = 4

\* C27: a day marked Sick keeps total = expected hours and balance 0 under
\* every later recalculation of the day, whatever its stamps.
C27_SickStaysThroughRecalculation ==
    \A d \in Days :
        ws.rows[d].status = "Krank" =>
            /\ ~IsNone(ws.rows[d].gesamt)
            /\ _read_hours_value(ws.rows[d].gesamt) = ExpectedOf(ws.rows[d])
            /\ ws.rows[d].saldo = Some(0)

\* C28: fill-missing-days leaves the expected hours of every row as stored,
\* and a row it fills gets as total the expected hours it already held.
C28_FillKeepsExpected ==
    [][Did("fill") =>
        \A d \in Days :
            /\ ws'.rows[d].soll = ws.rows[d].soll
            /\ ws'.rows[d] # ws.rows[d]
                 => _read_hours_value(ws'.rows[d].gesamt)
                      = ExpectedOf(ws.rows[d])]_vars

\* ---------------------------------------- claims on the break policy, II
\* the raw total of m worked minutes, and what one more minute adds to the
\* credited total
RawOfMinutes(m) == RoundHalfEven(m * H4PerHour, 60)

CreditedStep(m) == AutoBreak(RawOfMinutes(m + 1)) - AutoBreak(RawOfMinutes(m))

\* C23 as stated: there is a raw day total at which one more worked minute
\* changes the break-adjusted total by something other than 0 or one minute
\* (looked for from the raw total at hand upwards: from 0 h, among all).
C23_BreakPolicyJumps ==
    \E m \in FmtTotalMinutes(probe.raw) .. MaxRawMinutes :
        CreditedStep(m) \notin {0, RawOfMinutes(m + 1) - RawOfMinutes(m)}

\* C23 amended: the break-adjusted total has no jump: at every raw total
\* one more worked minute changes it by 0 (between the threshold and the
\* threshold plus the deduction) or by that one minute (everywhere else).
C23_BreakPolicyHasNoJump ==
    ~IsNone(probe.out) =>
        LET m == FmtTotalMinutes(probe.raw)
            T == (AutoBreakThresholdHours * 60) \div H4PerHour
        IN  /\ probe.raw = RawOfMinutes(m)
            /\ Val(probe.out) = AutoBreak(RawOfMinutes(m))
            /\ CreditedStep(m)
                 = IF T <= m /\ m < T + AutoBreakDeductionMinutes THEN 0
                   ELSE RawOfMinutes(m + 1) - RawOfMinutes(m)

\* the raw total 6.5 h is credited 6.0 h and one more minute 6.0167 h
C23_Witness ==
    /\ probe.raw = 65000 /\ probe.out = Some(60000)
    /\ AutoBreak(RawOfMinutes(391)) = 60167

\* -------------------------------------- a closed day and the live query
\* a day of two blocks, 08:00 to an exit of FirstExits and 13:00 to an exit
\* of SecondExits (11:40 is before the entry): raw totals from 2 h to 8 h
FirstExits == 600 .. 720
SecondExits == {700} \cup (820 .. 960)

InitLive ==
    /\ ws = [num_blocks |-> INITIAL_BLOCKS,
             rows |-> [d \in Days |->
                 IF d = 1 THEN NewRow(INITIAL_BLOCKS, get_expected_hours(1))
                 ELSE NoRow(INITIAL_BLOCKS)]]
    /\ last = NoOp
    /\ ops = 0
    /\ \E aus1 \in FirstExits, aus2 \in SecondExits, is_home \in BOOLEAN,
          now \in Times :
          probe = [aus |-> << aus1, aus2 >>, home |-> is_home, now |-> now,
                   done |-> FALSE, live |-> None]

\* stempel ein / aus twice, then stempel status at time now
StampAndQuery ==
    /\ ~probe.done
    /\ LET w1 == write_stamp_aus(write_stamp_ein(ws, 1, 480, probe.home),
                                 1, probe.aus[1])
           w2 == write_stamp_aus(write_stamp_ein(w1, 1, 780, ~probe.home),
                                 1, probe.aus[2])
       IN  /\ ws' = w2
           /\ probe' = [probe EXCEPT
                           !.done = TRUE,
                           !.live = calculate_current_hours(w2, 1, probe.now)]
    /\ UNCHANGED << last, ops >>

NextLive == StampAndQuery

SpecLive == InitLive /\ [][NextLive]_vars

\* C29: for a day with a stamp, no open block and status Home or Office,
\* the live query returns the total recalculate_day stored for the same
\* stamps, whatever the current time is.
C29_LiveEqualsStoredTotal ==
    probe.done =>
        /\ Stamps(ws.rows[1]) # {} /\ OpenBlocks(ws.rows[1]) = {}
        /\ ws.rows[1].status \in {"Home", "Office"}
        /\ ~IsNone(probe.live)
        /\ Val(probe.live) = _read_hours_value(ws.rows[1].gesamt)
        /\ \A now \in Times :
              calculate_current_hours(ws, 1, now) = probe.live

\* an Office day of 3:38 and 2:56 with the offsets, 6:34 raw: the four-
\* decimal block hours add up to 6.5666 h, the minutes to 6.5667 h, and both
\* the stored and the live total are 6.07 h after the deduction
C29_Witness ==
    /\ probe.done /\ ws.rows[1].status = "Office"
    /\ probe.aus = << 696, 954 >>
    /\ RawTotal(ws.rows[1], ws.num_blocks) = 65666
    /\ probe.live = Some(60700)

====
